---- MODULE Spec2Model ----
(***************************************************************************)
(* Raffle instance contract (contracts/raffle/src/instance/mod.rs).        *)
(*                                                                         *)
(* One contract instance holds one Raffle record, the ticket ledger        *)
(* (Vec<Address>), the per-buyer ticket counts, the next-ticket-id         *)
(* counter and the Ticket records, all in persistent storage.  Each public *)
(* entry point is one atomic step: the host serialises calls and a call    *)
(* that returns Err or traps commits nothing.  The payment token is the    *)
(* balances map; the ledger clock is (now, seq).                           *)
(***************************************************************************)
EXTENDS Integers, Sequences, FiniteSets, TLC

\* ------------------------------------------------------------------ bounds

\* Largest max_tickets an init call is given.
MaxTickets == 2
\* Last ledger timestamp the clock advances to.
MaxTime == 2
\* Tokens minted to every user before the contract is used.
InitialBalance == 4

\* ------------------------------------------------------------ input domains

Users == {"alice", "bob", "carol"}
Creators == {"alice"}
Factories == {"factory"}
ContractAddr == "contract"
Accounts == Users \cup {ContractAddr}
None == "None"
Sources == {"prng", "oracle"}

\* Seconds the ledger timestamp moves forward when a ledger closes.
Steps == {1, 2}

\* Arguments of init that pass its checks while the clock is at most 1 ...
ValidArgs ==
    [end_time : {0, 1}, max_tickets : 1..MaxTickets, allow_multiple : BOOLEAN,
     ticket_price : {2}, prize_amount : {2}]

\* ... and the same with one parameter made invalid.
InvalidArgs ==
    LET base == [end_time |-> 0, max_tickets |-> 1, allow_multiple |-> FALSE,
                 ticket_price |-> 2, prize_amount |-> 2]
    IN {[base EXCEPT !.max_tickets = 0], [base EXCEPT !.ticket_price = 0],
        [base EXCEPT !.ticket_price = -1], [base EXCEPT !.prize_amount = 0]}

InitArgs == ValidArgs \cup InvalidArgs

\* -------------------------------------------------------------- error enum

RaffleInactive == "RaffleInactive"
TicketsSoldOut == "TicketsSoldOut"
PrizeNotDeposited == "PrizeNotDeposited"
PrizeAlreadyClaimed == "PrizeAlreadyClaimed"
InvalidParameters == "InvalidParameters"
InsufficientTickets == "InsufficientTickets"
RaffleEnded == "RaffleEnded"
RaffleStillRunning == "RaffleStillRunning"
NoTicketsSold == "NoTicketsSold"
MultipleTicketsNotAllowed == "MultipleTicketsNotAllowed"
PrizeAlreadyDeposited == "PrizeAlreadyDeposited"
NotWinner == "NotWinner"
AlreadyInitialized == "AlreadyInitialized"
NotInitialized == "NotInitialized"
Ok == "Ok"
\* Host traps: require_auth of a principal that did not authorise the call,
\* and a token transfer the token contract rejects.
AuthFailed == "AuthFailed"
TransferFailed == "TransferFailed"

\* A panic!, or an unwrap() of a storage entry that is absent.
Panicked == "Panicked"

\* ------------------------------------------------------------------- state

VARIABLES
    initialized,   \* storage has DataKey::Raffle
    raffle,        \* DataKey::Raffle
    factory,       \* DataKey::Factory
    tickets,       \* DataKey::Tickets, the ticket ledger
    ticketCount,   \* DataKey::TicketCount(buyer)
    nextTicketId,  \* DataKey::NextTicketId
    ticketStore,   \* DataKey::Ticket(id): id, buyer, ticket_number (purchase_time, the
                   \* timestamp the purchase event also carries, is written and never read)
    balances,      \* the payment token's balances
    now,           \* env.ledger().timestamp()
    seq,           \* env.ledger().sequence()
    last,          \* the last call: entry point, arguments, outcome, events
    paidOut,       \* total the token moved out of the contract's balance
    factoryAdmin,     \* RaffleFactory: DataKey::Admin (lib.rs)
    raffleInstances,  \* RaffleFactory: DataKey::RaffleInstances (lib.rs)
    created,          \* RaffleFactory: number of create_raffle calls that succeeded
    raffleIds         \* the multi-raffle contract's registry of raffle ids

storage == <<initialized, raffle, factory, tickets, ticketCount, nextTicketId, ticketStore>>
persisted == <<storage, balances>>
ledger == <<now, seq>>
factoryState == <<factoryAdmin, raffleInstances, created>>
registry == <<factoryState, raffleIds>>
vars == <<persisted, ledger, last, paidOut, registry>>

\* The record read back when DataKey::Raffle was never written.
NoRaffle ==
    [creator |-> None, end_time |-> 0, max_tickets |-> 0, allow_multiple |-> FALSE,
     ticket_price |-> 0, prize_amount |-> 0, tickets_sold |-> 0, is_active |-> FALSE,
     prize_deposited |-> FALSE, prize_claimed |-> FALSE, winner |-> None]

\* `last` describes the step just taken: the entry point called (or the
\* ledger closing), the principal argument, whether the principal the entry
\* point names authorised the call, the numeric argument, the outcome, the
\* value returned and the events published.
NoCall ==
    [op |-> "none", who |-> None, auth |-> TRUE, arg |-> 0, res |-> Ok, retN |-> 0,
     retA |-> None, events |-> <<>>]

Init ==
    /\ initialized = FALSE
    /\ raffle = NoRaffle
    /\ factory = None
    /\ tickets = <<>>
    /\ ticketCount = [u \in Users |-> 0]
    /\ nextTicketId = 0
    /\ ticketStore = <<>>
    /\ balances = [a \in Accounts |-> IF a = ContractAddr THEN 0 ELSE InitialBalance]
    /\ now = 0
    /\ seq = 0
    /\ last = NoCall
    /\ paidOut = 0
    /\ factoryAdmin = None
    /\ raffleInstances = <<>>
    /\ created = 0
    /\ raffleIds = <<>>

\* ----------------------------------------------------------------- helpers

\* What a call leaves in `last`.
Call(op, who, auth, res, retN, retA, events) ==
    [op |-> op, who |-> who, auth |-> auth, arg |-> 0, res |-> res, retN |-> retN,
     retA |-> retA, events |-> events]

\* A call that returns Err or traps: the host commits no write and no event.
Abort(op, who, auth, res) ==
    /\ last' = Call(op, who, auth, res, 0, None, <<>>)
    /\ UNCHANGED <<persisted, ledger, paidOut>>

\* token_client.transfer(from, to, amount) succeeds when `from` holds the amount.
CanTransfer(from, amount) == balances[from] >= amount

Transfer(from, to, amount) ==
    [a \in Accounts |->
        IF a = from /\ a = to THEN balances[a]
        ELSE IF a = from THEN balances[a] - amount
        ELSE IF a = to THEN balances[a] + amount
        ELSE balances[a]]

\* ------------------------------------------------------------------- init

\* init's checks with an end_time equal to the current time refused.
init_check_strict_end(end_time, max_tickets, ticket_price, prize_amount) ==
    IF initialized THEN AlreadyInitialized
    ELSE IF end_time <= now /\ end_time # 0 THEN InvalidParameters
    ELSE IF max_tickets = 0 THEN InvalidParameters
    ELSE IF ticket_price <= 0 THEN InvalidParameters
    ELSE IF prize_amount <= 0 THEN InvalidParameters
    ELSE Ok

\* init's checks without the AlreadyInitialized test.
init_check_reinit(end_time, max_tickets, ticket_price, prize_amount) ==
    IF end_time < now /\ end_time # 0 THEN InvalidParameters
    ELSE IF max_tickets = 0 THEN InvalidParameters
    ELSE IF ticket_price <= 0 THEN InvalidParameters
    ELSE IF prize_amount <= 0 THEN InvalidParameters
    ELSE Ok

init_check(end_time, max_tickets, ticket_price, prize_amount) ==
    IF initialized THEN AlreadyInitialized
    ELSE IF end_time < now /\ end_time # 0 THEN InvalidParameters
    ELSE IF max_tickets = 0 THEN InvalidParameters
    ELSE IF ticket_price <= 0 THEN InvalidParameters
    ELSE IF prize_amount <= 0 THEN InvalidParameters
    ELSE Ok

\* init never calls require_auth: `auth` (did the named creator authorise the
\* call) is an input the handler does not read.
init(fac, creator, end_time, max_tickets, allow_multiple, ticket_price, prize_amount, auth) ==
    LET res == init_check(end_time, max_tickets, ticket_price, prize_amount) IN
    IF res # Ok THEN Abort("init", creator, auth, res)
    ELSE
        /\ initialized' = TRUE
        /\ raffle' = [creator |-> creator, end_time |-> end_time, max_tickets |-> max_tickets,
                      allow_multiple |-> allow_multiple, ticket_price |-> ticket_price,
                      prize_amount |-> prize_amount, tickets_sold |-> 0, is_active |-> TRUE,
                      prize_deposited |-> FALSE, prize_claimed |-> FALSE, winner |-> None]
        /\ factory' = fac
        /\ last' = Call("init", creator, auth, Ok, 0, None,
                        <<[topic |-> "RaffleInitialized", creator |-> creator,
                           end_time |-> end_time, max_tickets |-> max_tickets,
                           ticket_price |-> ticket_price]>>)
        /\ UNCHANGED <<tickets, ticketCount, nextTicketId, ticketStore, balances, ledger, paidOut>>

\* ---------------------------------------------------------- deposit_prize

\* deposit_prize's checks without the prize_deposited test.
deposit_prize_check_deposits_again(auth) ==
    IF ~initialized THEN NotInitialized
    ELSE IF ~auth THEN AuthFailed
    ELSE IF ~raffle.is_active THEN RaffleInactive
    ELSE IF ~CanTransfer(raffle.creator, raffle.prize_amount) THEN TransferFailed
    ELSE Ok

deposit_prize_check(auth) ==
    IF ~initialized THEN NotInitialized
    ELSE IF ~auth THEN AuthFailed
    ELSE IF ~raffle.is_active THEN RaffleInactive
    ELSE IF raffle.prize_deposited THEN PrizeAlreadyDeposited
    ELSE IF ~CanTransfer(raffle.creator, raffle.prize_amount) THEN TransferFailed
    ELSE Ok

\* deposit_prize with the flag written before the transfer and kept when the
\* transfer fails.
deposit_prize_writes_first(auth) ==
    LET res == deposit_prize_check(auth) IN
    IF res = TransferFailed THEN
        /\ raffle' = [raffle EXCEPT !.prize_deposited = TRUE]
        /\ last' = Call("deposit_prize", raffle.creator, auth, res, 0, None, <<>>)
        /\ UNCHANGED <<initialized, factory, tickets, ticketCount, nextTicketId, ticketStore,
                       balances, ledger, paidOut>>
    ELSE IF res # Ok THEN Abort("deposit_prize", raffle.creator, auth, res)
    ELSE
        /\ balances' = Transfer(raffle.creator, ContractAddr, raffle.prize_amount)
        /\ raffle' = [raffle EXCEPT !.prize_deposited = TRUE]
        /\ last' = Call("deposit_prize", raffle.creator, auth, Ok, 0, None, <<>>)
        /\ UNCHANGED <<initialized, factory, tickets, ticketCount, nextTicketId, ticketStore,
                       ledger, paidOut>>

deposit_prize(auth) ==
    LET res == deposit_prize_check(auth) IN
    IF res # Ok THEN Abort("deposit_prize", raffle.creator, auth, res)
    ELSE
        /\ balances' = Transfer(raffle.creator, ContractAddr, raffle.prize_amount)
        /\ raffle' = [raffle EXCEPT !.prize_deposited = TRUE]
        /\ last' = Call("deposit_prize", raffle.creator, auth, Ok, 0, None, <<>>)
        /\ UNCHANGED <<initialized, factory, tickets, ticketCount, nextTicketId, ticketStore,
                       ledger, paidOut>>

\* ------------------------------------------------------------- buy_ticket

\* next_ticket_id that hands out the stored value without adding one.
next_ticket_id_stale == nextTicketId

\* next_ticket_id: the stored counter (0 when unset) plus one, written back.
next_ticket_id == nextTicketId + 1

\* The ledger written with the new buyer in front.
push_front(v, x) == <<x>> \o v

\* Vec::push_back on the ticket ledger.
push_back(v, x) == Append(v, x)

\* buy_ticket's checks with `>` for `>=` in the sold-out test.
buy_ticket_check_off_by_one(buyer, auth) ==
    IF ~auth THEN AuthFailed
    ELSE IF ~initialized THEN NotInitialized
    ELSE IF ~raffle.is_active THEN RaffleInactive
    ELSE IF raffle.end_time # 0 /\ now > raffle.end_time THEN RaffleEnded
    ELSE IF raffle.tickets_sold > raffle.max_tickets THEN TicketsSoldOut
    ELSE IF ~raffle.allow_multiple /\ ticketCount[buyer] > 0 THEN MultipleTicketsNotAllowed
    ELSE IF ~CanTransfer(buyer, raffle.ticket_price) THEN TransferFailed
    ELSE Ok

\* buy_ticket's checks with the single-ticket test ahead of the sold-out test.
buy_ticket_check_multiple_first(buyer, auth) ==
    IF ~auth THEN AuthFailed
    ELSE IF ~initialized THEN NotInitialized
    ELSE IF ~raffle.is_active THEN RaffleInactive
    ELSE IF raffle.end_time # 0 /\ now > raffle.end_time THEN RaffleEnded
    ELSE IF ~raffle.allow_multiple /\ ticketCount[buyer] > 0 THEN MultipleTicketsNotAllowed
    ELSE IF raffle.tickets_sold >= raffle.max_tickets THEN TicketsSoldOut
    ELSE IF ~CanTransfer(buyer, raffle.ticket_price) THEN TransferFailed
    ELSE Ok

\* buy_ticket's checks without the single-ticket test.
buy_ticket_check_no_multiple_check(buyer, auth) ==
    IF ~auth THEN AuthFailed
    ELSE IF ~initialized THEN NotInitialized
    ELSE IF ~raffle.is_active THEN RaffleInactive
    ELSE IF raffle.end_time # 0 /\ now > raffle.end_time THEN RaffleEnded
    ELSE IF raffle.tickets_sold >= raffle.max_tickets THEN TicketsSoldOut
    ELSE IF ~CanTransfer(buyer, raffle.ticket_price) THEN TransferFailed
    ELSE Ok

buy_ticket_check(buyer, auth) ==
    IF ~auth THEN AuthFailed
    ELSE IF ~initialized THEN NotInitialized
    ELSE IF ~raffle.is_active THEN RaffleInactive
    ELSE IF raffle.end_time # 0 /\ now > raffle.end_time THEN RaffleEnded
    ELSE IF raffle.tickets_sold >= raffle.max_tickets THEN TicketsSoldOut
    ELSE IF ~raffle.allow_multiple /\ ticketCount[buyer] > 0 THEN MultipleTicketsNotAllowed
    ELSE IF ~CanTransfer(buyer, raffle.ticket_price) THEN TransferFailed
    ELSE Ok

\* buy_ticket with the ticket price transferred to the creator instead of
\* the contract's own address.
buy_ticket_pays_creator(buyer, auth) ==
    LET res == buy_ticket_check(buyer, auth)
        ticket_id == next_ticket_id
        ticket == [id |-> ticket_id, buyer |-> buyer,
                   ticket_number |-> raffle.tickets_sold + 1]
    IN
    IF res # Ok THEN Abort("buy_ticket", buyer, auth, res)
    ELSE
        /\ balances' = Transfer(buyer, raffle.creator, raffle.ticket_price)
        /\ nextTicketId' = ticket_id
        /\ ticketStore' = (ticket_id :> ticket) @@ ticketStore
        /\ tickets' = push_back(tickets, buyer)
        /\ raffle' = [raffle EXCEPT !.tickets_sold = @ + 1]
        /\ ticketCount' = [ticketCount EXCEPT ![buyer] = @ + 1]
        /\ last' = Call("buy_ticket", buyer, auth, Ok, raffle.tickets_sold + 1, None,
                        <<[topic |-> "TicketPurchased", buyer |-> buyer,
                           ticket_ids |-> <<ticket_id>>, quantity |-> 1,
                           total_paid |-> raffle.ticket_price, timestamp |-> now]>>)
        /\ UNCHANGED <<initialized, factory, ledger, paidOut>>

buy_ticket(buyer, auth) ==
    LET res == buy_ticket_check(buyer, auth)
        ticket_id == next_ticket_id
        ticket == [id |-> ticket_id, buyer |-> buyer,
                   ticket_number |-> raffle.tickets_sold + 1]
    IN
    IF res # Ok THEN Abort("buy_ticket", buyer, auth, res)
    ELSE
        /\ balances' = Transfer(buyer, ContractAddr, raffle.ticket_price)
        /\ nextTicketId' = ticket_id
        /\ ticketStore' = (ticket_id :> ticket) @@ ticketStore
        /\ tickets' = push_back(tickets, buyer)
        /\ raffle' = [raffle EXCEPT !.tickets_sold = @ + 1]
        /\ ticketCount' = [ticketCount EXCEPT ![buyer] = @ + 1]
        /\ last' = Call("buy_ticket", buyer, auth, Ok, raffle.tickets_sold + 1, None,
                        <<[topic |-> "TicketPurchased", buyer |-> buyer,
                           ticket_ids |-> <<ticket_id>>, quantity |-> 1,
                           total_paid |-> raffle.ticket_price, timestamp |-> now]>>)
        /\ UNCHANGED <<initialized, factory, ledger, paidOut>>

\* -------------------------------------------------------- finalize_raffle

\* finalize_raffle's checks without the is_active test.
finalize_raffle_check_no_active(auth) ==
    IF ~initialized THEN NotInitialized
    ELSE IF ~auth THEN AuthFailed
    ELSE IF raffle.end_time # 0 /\ now < raffle.end_time THEN RaffleStillRunning
    ELSE IF raffle.tickets_sold = 0 THEN NoTicketsSold
    ELSE Ok

\* finalize_raffle's checks with the ticket test ahead of the end-time test.
finalize_raffle_check_tickets_first(auth) ==
    IF ~initialized THEN NotInitialized
    ELSE IF ~auth THEN AuthFailed
    ELSE IF ~raffle.is_active THEN RaffleInactive
    ELSE IF raffle.tickets_sold = 0 THEN NoTicketsSold
    ELSE IF raffle.end_time # 0 /\ now < raffle.end_time THEN RaffleStillRunning
    ELSE Ok

\* finalize_raffle's checks without the end-time test.
finalize_raffle_check_early(auth) ==
    IF ~initialized THEN NotInitialized
    ELSE IF ~auth THEN AuthFailed
    ELSE IF ~raffle.is_active THEN RaffleInactive
    ELSE IF raffle.tickets_sold = 0 THEN NoTicketsSold
    ELSE Ok

finalize_raffle_check(auth) ==
    IF ~initialized THEN NotInitialized
    ELSE IF ~auth THEN AuthFailed
    ELSE IF ~raffle.is_active THEN RaffleInactive
    ELSE IF raffle.end_time # 0 /\ now < raffle.end_time THEN RaffleStillRunning
    ELSE IF raffle.tickets_sold = 0 THEN NoTicketsSold
    ELSE Ok

\* winner_index seeded by the timestamp alone.
winner_index_first == now % Len(tickets)

\* seed % tickets.len(), as an index into the 0-based Vec.
winner_index == (now + seq) % Len(tickets)

\* finalize_raffle whose seed also depends on the randomness-source label.
finalize_raffle_label_seed(source, auth) ==
    LET res == finalize_raffle_check(auth)
        index == (now + seq + (IF source = "oracle" THEN 1 ELSE 0)) % Len(tickets)
        winner == tickets[index + 1]
    IN
    IF res # Ok THEN Abort("finalize_raffle", raffle.creator, auth, res)
    ELSE
        /\ raffle' = [raffle EXCEPT !.is_active = FALSE, !.winner = winner]
        /\ last' = Call("finalize_raffle", raffle.creator, auth, Ok, 0, winner,
                        <<[topic |-> "RaffleFinalized", winner |-> winner,
                           winning_ticket_id |-> index,
                           total_tickets_sold |-> raffle.tickets_sold,
                           randomness_source |-> source, finalized_at |-> now]>>)
        /\ UNCHANGED <<initialized, factory, tickets, ticketCount, nextTicketId, ticketStore,
                       balances, ledger, paidOut>>

finalize_raffle(source, auth) ==
    LET res == finalize_raffle_check(auth)
        winner == tickets[winner_index + 1]
    IN
    IF res # Ok THEN Abort("finalize_raffle", raffle.creator, auth, res)
    ELSE
        /\ raffle' = [raffle EXCEPT !.is_active = FALSE, !.winner = winner]
        /\ last' = Call("finalize_raffle", raffle.creator, auth, Ok, 0, winner,
                        <<[topic |-> "RaffleFinalized", winner |-> winner,
                           winning_ticket_id |-> winner_index,
                           total_tickets_sold |-> raffle.tickets_sold,
                           randomness_source |-> source, finalized_at |-> now]>>)
        /\ UNCHANGED <<initialized, factory, tickets, ticketCount, nextTicketId, ticketStore,
                       balances, ledger, paidOut>>

\* ------------------------------------------------------------ claim_prize

\* claim_prize's checks without the prize_claimed test.
claim_prize_check_pays_again(winner, auth) ==
    IF ~auth THEN AuthFailed
    ELSE IF ~initialized THEN NotInitialized
    ELSE IF raffle.winner # winner THEN NotWinner
    ELSE IF ~raffle.prize_deposited THEN PrizeNotDeposited
    ELSE IF ~CanTransfer(ContractAddr, raffle.prize_amount) THEN TransferFailed
    ELSE Ok

\* claim_prize's checks without the prize_deposited test.
claim_prize_check_no_deposit(winner, auth) ==
    IF ~auth THEN AuthFailed
    ELSE IF ~initialized THEN NotInitialized
    ELSE IF raffle.winner # winner THEN NotWinner
    ELSE IF raffle.prize_claimed THEN PrizeAlreadyClaimed
    ELSE IF ~CanTransfer(ContractAddr, raffle.prize_amount) THEN TransferFailed
    ELSE Ok

\* claim_prize's checks with a claim accepted only while the raffle is active.
claim_prize_check_active_only(winner, auth) ==
    IF ~auth THEN AuthFailed
    ELSE IF ~initialized THEN NotInitialized
    ELSE IF raffle.winner # winner THEN NotWinner
    ELSE IF ~raffle.is_active THEN RaffleInactive
    ELSE IF ~raffle.prize_deposited THEN PrizeNotDeposited
    ELSE IF raffle.prize_claimed THEN PrizeAlreadyClaimed
    ELSE IF ~CanTransfer(ContractAddr, raffle.prize_amount) THEN TransferFailed
    ELSE Ok

claim_prize_check(winner, auth) ==
    IF ~auth THEN AuthFailed
    ELSE IF ~initialized THEN NotInitialized
    ELSE IF raffle.winner # winner THEN NotWinner
    ELSE IF ~raffle.prize_deposited THEN PrizeNotDeposited
    ELSE IF raffle.prize_claimed THEN PrizeAlreadyClaimed
    ELSE IF ~CanTransfer(ContractAddr, raffle.prize_amount) THEN TransferFailed
    ELSE Ok

claim_prize(winner, auth) ==
    LET res == claim_prize_check(winner, auth)
        net_amount == raffle.prize_amount
    IN
    IF res # Ok THEN Abort("claim_prize", winner, auth, res)
    ELSE
        /\ balances' = Transfer(ContractAddr, winner, net_amount)
        /\ paidOut' = paidOut + net_amount
        /\ raffle' = [raffle EXCEPT !.prize_claimed = TRUE]
        /\ last' = Call("claim_prize", winner, auth, Ok, net_amount, None,
                        <<[topic |-> "PrizeClaimed", winner |-> winner,
                           gross_amount |-> raffle.prize_amount, net_amount |-> net_amount,
                           platform_fee |-> 0, claimed_at |-> now]>>)
        /\ UNCHANGED <<initialized, factory, tickets, ticketCount, nextTicketId, ticketStore,
                       ledger>>

\* ------------------------------------------------------------- get_raffle

\* read_raffle: the stored raffle, or NotInitialized when none is stored.
read_raffle == IF initialized THEN Ok ELSE NotInitialized

\* get_raffle reads, asks for no authorisation and writes nothing; on success
\* the call record carries the raffle returned.
get_raffle ==
    IF read_raffle # Ok THEN Abort("get_raffle", None, TRUE, read_raffle)
    ELSE
        /\ last' = Call("get_raffle", None, TRUE, Ok, 0, None, <<>>) @@ [ret |-> raffle]
        /\ UNCHANGED <<persisted, ledger, paidOut>>

\* ----------------------------------------------------------------- ledger

\* The network closes a ledger: the sequence number grows by one and the
\* timestamp moves forward.
AdvanceLedger ==
    \E dt \in Steps :
        /\ now + dt <= MaxTime
        /\ now' = now + dt
        /\ seq' = seq + 1
        /\ last' = [NoCall EXCEPT !.op = "close_ledger"]
        /\ UNCHANGED <<persisted, paidOut, registry>>

\* ------------------------------------------------------------------ calls

InitCall ==
    /\ \E fac \in Factories, creator \in Creators, a \in InitArgs, auth \in BOOLEAN :
           init(fac, creator, a.end_time, a.max_tickets, a.allow_multiple, a.ticket_price,
                a.prize_amount, auth)
    /\ UNCHANGED registry

DepositCall ==
    /\ \E auth \in BOOLEAN : deposit_prize(auth)
    /\ UNCHANGED registry

BuyCall ==
    /\ \E buyer \in Users, auth \in BOOLEAN : buy_ticket(buyer, auth)
    /\ UNCHANGED registry

FinalizeCall ==
    /\ \E source \in Sources, auth \in BOOLEAN : finalize_raffle(source, auth)
    /\ UNCHANGED registry

ClaimCall ==
    /\ \E winner \in Users, auth \in BOOLEAN : claim_prize(winner, auth)
    /\ UNCHANGED registry

GetRaffleCall ==
    /\ get_raffle
    /\ UNCHANGED registry

Next ==
    \/ InitCall
    \/ DepositCall
    \/ BuyCall
    \/ FinalizeCall
    \/ ClaimCall
    \/ GetRaffleCall
    \/ AdvanceLedger

Spec == Init /\ [][Next]_vars

\* ------------------------------------------------- buy_tickets (batch variant)

\* The batch purchase of the multi-raffle variant.
Quantities == 0..(MaxTickets + 1)

buy_tickets_check(buyer, quantity, auth) ==
    IF ~auth THEN AuthFailed
    ELSE IF ~initialized THEN NotInitialized
    ELSE IF ~raffle.is_active THEN RaffleInactive
    ELSE IF raffle.end_time # 0 /\ now > raffle.end_time THEN RaffleEnded
    ELSE IF quantity <= 0 THEN InvalidParameters
    ELSE IF quantity > 1 /\ ~raffle.allow_multiple THEN MultipleTicketsNotAllowed
    ELSE IF ~raffle.allow_multiple /\ ticketCount[buyer] > 0 THEN MultipleTicketsNotAllowed
    ELSE IF raffle.tickets_sold + quantity > raffle.max_tickets THEN InsufficientTickets
    ELSE IF ~CanTransfer(buyer, raffle.ticket_price * quantity) THEN TransferFailed
    ELSE Ok

buy_tickets(buyer, quantity, auth) ==
    LET res == buy_tickets_check(buyer, quantity, auth)
        ticket_ids == [i \in 1..quantity |-> nextTicketId + i]
        minted == [id \in {ticket_ids[i] : i \in 1..quantity} |->
                      [id |-> id, buyer |-> buyer,
                       ticket_number |-> raffle.tickets_sold + (id - nextTicketId)]]
    IN
    IF res # Ok
    THEN /\ last' = [Call("buy_tickets", buyer, auth, res, 0, None, <<>>)
                        EXCEPT !.arg = quantity]
         /\ UNCHANGED <<persisted, ledger, paidOut>>
    ELSE
        /\ balances' = Transfer(buyer, ContractAddr, raffle.ticket_price * quantity)
        /\ nextTicketId' = nextTicketId + quantity
        /\ ticketStore' = minted @@ ticketStore
        /\ tickets' = tickets \o [i \in 1..quantity |-> buyer]
        /\ raffle' = [raffle EXCEPT !.tickets_sold = @ + quantity]
        /\ ticketCount' = [ticketCount EXCEPT ![buyer] = @ + quantity]
        /\ last' = [Call("buy_tickets", buyer, auth, Ok, raffle.tickets_sold + quantity, None,
                         <<[topic |-> "TicketPurchased", buyer |-> buyer,
                            ticket_ids |-> ticket_ids, quantity |-> quantity,
                            total_paid |-> raffle.ticket_price * quantity,
                            timestamp |-> now]>>)
                        EXCEPT !.arg = quantity]
        /\ UNCHANGED <<initialized, factory, ledger, paidOut>>

BuyBatchCall ==
    /\ \E buyer \in Users, quantity \in Quantities, auth \in BOOLEAN :
           buy_tickets(buyer, quantity, auth)
    /\ UNCHANGED registry

NextBatch ==
    \/ Next
    \/ BuyBatchCall

\* The instance contract with the batch purchase added.
SpecBatch == Init /\ [][NextBatch]_vars

\* ------------------------------------------ counters at their full width

\* tickets_sold, the next-ticket-id counter and the per-buyer counts are u32.
\* In Spec they stay far below 2^32, and the sums there are exact. Here the
\* same counters are CounterBits wide, so that a raffle can be sold up to the
\* largest value a counter holds.
CounterBits == 2
CounterModulus == 2 ^ CounterBits
CounterMax == CounterModulus - 1

\* Raffles of every size up to the largest max_tickets, tickets at price 1.
WidthArgs ==
    [end_time : {0}, max_tickets : 1..CounterMax, allow_multiple : BOOLEAN,
     ticket_price : {1}, prize_amount : {1}]

\* a + b leaves the counter's range.
overflows(a, b) == a + b > CounterMax

\* buy_ticket with its three unchecked additions (current + 1 in
\* next_ticket_id, tickets_sold += 1, current_count + 1) done at the
\* counters' width: an addition that leaves the range panics when the build
\* checks overflow and wraps when it does not.
buy_ticket_at_width(buyer, auth) ==
    LET res == buy_ticket_check(buyer, auth)
        ticket_id == next_ticket_id % CounterModulus
        ticket_number == (raffle.tickets_sold + 1) % CounterModulus
        ticket == [id |-> ticket_id, buyer |-> buyer, ticket_number |-> ticket_number]
    IN
    IF res # Ok THEN Abort("buy_ticket", buyer, auth, res)
    ELSE
        \/ /\ \/ overflows(nextTicketId, 1)
              \/ overflows(raffle.tickets_sold, 1)
              \/ overflows(ticketCount[buyer], 1)
           /\ Abort("buy_ticket", buyer, auth, Panicked)
        \/ /\ balances' = Transfer(buyer, ContractAddr, raffle.ticket_price)
           /\ nextTicketId' = ticket_id
           /\ ticketStore' = (ticket_id :> ticket) @@ ticketStore
           /\ tickets' = push_back(tickets, buyer)
           /\ raffle' = [raffle EXCEPT !.tickets_sold = ticket_number]
           /\ ticketCount' = [ticketCount EXCEPT ![buyer] = (@ + 1) % CounterModulus]
           /\ last' = Call("buy_ticket", buyer, auth, Ok, ticket_number, None,
                           <<[topic |-> "TicketPurchased", buyer |-> buyer,
                              ticket_ids |-> <<ticket_id>>, quantity |-> 1,
                              total_paid |-> raffle.ticket_price, timestamp |-> now]>>)
           /\ UNCHANGED <<initialized, factory, ledger, paidOut>>

WidthInitCall ==
    /\ \E fac \in Factories, creator \in Creators, a \in WidthArgs, auth \in BOOLEAN :
           init(fac, creator, a.end_time, a.max_tickets, a.allow_multiple, a.ticket_price,
                a.prize_amount, auth)
    /\ UNCHANGED registry

WidthBuyCall ==
    /\ \E buyer \in Users, auth \in BOOLEAN : buy_ticket_at_width(buyer, auth)
    /\ UNCHANGED registry

NextWidth ==
    \/ WidthInitCall
    \/ WidthBuyCall
    \/ FinalizeCall

SpecWidth == Init /\ [][NextWidth]_vars

\* -------------------------------------------------- the lifecycle, fairly

\* The creator submits a finalize_raffle the creator authorised and it succeeds.
FinalizeByCreator ==
    /\ \E source \in Sources : finalize_raffle(source, TRUE)
    /\ last'.res = Ok
    /\ UNCHANGED registry

\* The winner submits a claim_prize the winner authorised and it succeeds.
ClaimByWinner ==
    /\ \E winner \in Users : claim_prize(winner, TRUE)
    /\ last'.res = Ok
    /\ UNCHANGED registry

\* The ledger keeps closing, and the creator and the winner keep submitting
\* finalize_raffle and claim_prize while those can succeed.
Fairness ==
    /\ WF_vars(AdvanceLedger)
    /\ WF_vars(FinalizeByCreator)
    /\ WF_vars(ClaimByWinner)

SpecLive == Init /\ [][Next]_vars /\ Fairness

\* ------------------------------------------------------ the raffle factory

\* The most entries the factory's registry is grown to.
MaxInstances == 3

\* RaffleFactory::init without the "already initialized" test.
factory_init_again(admin) ==
    /\ factoryAdmin' = admin
    /\ raffleInstances' = <<>>
    /\ last' = Call("factory_init", admin, TRUE, Ok, 0, None, <<>>)
    /\ UNCHANGED <<persisted, ledger, paidOut, created, raffleIds>>

\* RaffleFactory::init: panics when Admin is set; otherwise stores the admin,
\* the wasm hash and an empty RaffleInstances. It asks for no authorisation.
factory_init(admin) ==
    IF factoryAdmin # None
    THEN Abort("factory_init", admin, TRUE, Panicked) /\ UNCHANGED registry
    ELSE
        /\ factoryAdmin' = admin
        /\ raffleInstances' = <<>>
        /\ last' = Call("factory_init", admin, TRUE, Ok, 0, None, <<>>)
        /\ UNCHANGED <<persisted, ledger, paidOut, created, raffleIds>>

\* RaffleFactory::create_raffle: creator.require_auth(), then the wasm hash
\* is unwrapped (absent before init), nothing is deployed, and the creator's
\* address is pushed onto RaffleInstances and returned.
create_raffle(creator, auth) ==
    IF ~auth THEN Abort("create_raffle", creator, auth, AuthFailed) /\ UNCHANGED registry
    ELSE IF factoryAdmin = None
    THEN Abort("create_raffle", creator, auth, Panicked) /\ UNCHANGED registry
    ELSE
        /\ raffleInstances' = push_back(raffleInstances, creator)
        /\ created' = created + 1
        /\ last' = Call("create_raffle", creator, auth, Ok, 0, creator, <<>>)
        /\ UNCHANGED <<persisted, ledger, paidOut, factoryAdmin, raffleIds>>

\* RaffleFactory::get_raffles: RaffleInstances, or an empty Vec when unset.
get_raffles ==
    /\ last' = Call("get_raffles", None, TRUE, Ok, 0, None, <<>>)
                @@ [ret |-> raffleInstances]
    /\ UNCHANGED <<persisted, ledger, paidOut, registry>>

FactoryInitCall == \E admin \in Users : factory_init(admin)

CreateRaffleCall ==
    \E creator \in Users, auth \in BOOLEAN :
        /\ Len(raffleInstances) < MaxInstances
        /\ create_raffle(creator, auth)

GetRafflesCall == get_raffles

NextFactory ==
    \/ FactoryInitCall
    \/ CreateRaffleCall
    \/ GetRafflesCall

SpecFactory == Init /\ [][NextFactory]_vars

\* ------------------------------------------- the multi-raffle id registry

\* The most raffles the registry is grown to: above the page ceiling, so that
\* a page can be cut by the ceiling and not only by the end of the registry.
MaxRaffles == 102

\* Hard ceiling of a page.
MAX_PAGE_LIMIT == 100

Offsets == {0, 1, 3, 10, 100, 101}
Limits == {0, 1, 3, 10, 100, 101, 200}

\* create_raffle of the multi-raffle contract: the creator authorises, the new
\* raffle takes the next id, counted from 0, and the id is appended to the
\* registry and returned.
create_raffle_id(creator, auth) ==
    IF ~auth THEN Abort("create_raffle_id", creator, auth, AuthFailed) /\ UNCHANGED registry
    ELSE
        LET raffle_id == Len(raffleIds) IN
        /\ raffleIds' = Append(raffleIds, raffle_id)
        /\ last' = Call("create_raffle_id", creator, auth, Ok, raffle_id, None, <<>>)
        /\ UNCHANGED <<persisted, ledger, paidOut, factoryState>>

\* The ids at positions from..(to - 1) of the iteration order: the registry
\* read forward, or backward from its last entry when newest_first.
RECURSIVE collect_ids(_, _, _)
collect_ids(from, to, newest_first) ==
    IF from >= to THEN <<>>
    ELSE LET total == Len(raffleIds)
             index == IF newest_first THEN total - 1 - from ELSE from
         IN <<raffleIds[index + 1]>> \o collect_ids(from + 1, to, newest_first)

\* get_all_raffle_ids without the ceiling on limit.
get_all_raffle_ids_unclamped(offset, limit, newest_first) ==
    LET total == Len(raffleIds)
        end == IF offset + limit > total THEN total ELSE offset + limit
        data == collect_ids(offset, end, newest_first)
    IN [data |-> data,
        meta |-> [total |-> total, offset |-> offset, limit |-> limit,
                  has_more |-> offset + Len(data) < total]]

\* get_all_raffle_ids: the limit is clamped to MAX_PAGE_LIMIT, the page runs
\* from offset to offset + limit or to the end of the registry, and the
\* metadata reports total, offset, the clamped limit and has_more.
get_all_raffle_ids(offset, limit, newest_first) ==
    LET total == Len(raffleIds)
        effective_limit == IF limit > MAX_PAGE_LIMIT THEN MAX_PAGE_LIMIT ELSE limit
        end == IF offset + effective_limit > total THEN total ELSE offset + effective_limit
        data == collect_ids(offset, end, newest_first)
    IN [data |-> data,
        meta |-> [total |-> total, offset |-> offset, limit |-> effective_limit,
                  has_more |-> offset + Len(data) < total]]

CreateRaffleIdCall ==
    \E creator \in Creators, auth \in BOOLEAN :
        /\ Len(raffleIds) < MaxRaffles
        /\ create_raffle_id(creator, auth)

\* The read-only query: the call record carries the arguments and the page.
GetAllRaffleIdsCall ==
    \E offset \in Offsets, limit \in Limits, newest_first \in BOOLEAN :
        /\ last' = Call("get_all_raffle_ids", None, TRUE, Ok, 0, None, <<>>)
                    @@ [args |-> [offset |-> offset, limit |-> limit,
                                  newest_first |-> newest_first],
                        ret |-> get_all_raffle_ids(offset, limit, newest_first)]
        /\ UNCHANGED <<persisted, ledger, paidOut, registry>>

NextRegistry ==
    \/ CreateRaffleIdCall
    \/ GetAllRaffleIdsCall

SpecRegistry == Init /\ [][NextRegistry]_vars

\* ------------------------------------------------ the end-to-end scenario

\* setup_raffle_env: 1000 tokens minted to the creator and to each buyer, and
\* the raffle initialised with max_tickets 10, ticket_price 10, prize 100,
\* single ticket per buyer.
ScenarioBalance == 1000

ScenarioArgs ==
    [end_time : {0}, max_tickets : {10}, allow_multiple : {FALSE},
     ticket_price : {10}, prize_amount : {100}]

InitScenario ==
    /\ initialized = FALSE
    /\ raffle = NoRaffle
    /\ factory = None
    /\ tickets = <<>>
    /\ ticketCount = [u \in Users |-> 0]
    /\ nextTicketId = 0
    /\ ticketStore = <<>>
    /\ balances = [a \in Accounts |-> IF a = ContractAddr THEN 0 ELSE ScenarioBalance]
    /\ now = 0
    /\ seq = 0
    /\ last = NoCall
    /\ paidOut = 0
    /\ factoryAdmin = None
    /\ raffleInstances = <<>>
    /\ created = 0
    /\ raffleIds = <<>>

ScenarioInitCall ==
    /\ \E fac \in Factories, creator \in Creators, a \in ScenarioArgs, auth \in BOOLEAN :
           init(fac, creator, a.end_time, a.max_tickets, a.allow_multiple, a.ticket_price,
                a.prize_amount, auth)
    /\ UNCHANGED registry

NextScenario ==
    \/ ScenarioInitCall
    \/ DepositCall
    \/ BuyCall
    \/ FinalizeCall
    \/ ClaimCall
    \/ AdvanceLedger

SpecScenario == InitScenario /\ [][NextScenario]_vars

\* ------------------------------------------------------------------ claims

\* Past the deadline for purchases (buy_ticket's RaffleEnded test).
Ended == raffle.end_time # 0 /\ now > raffle.end_time

IsPrefix(s, t) == Len(s) <= Len(t) /\ SubSeq(t, 1, Len(s)) = s

\* C1 (as stated): once prize_claimed is set, every later claim_prize call, by
\* any claimant, fails with PrizeAlreadyClaimed and moves no funds, and the
\* total paid out of custody never exceeds prize_amount.
C1_AnyClaimantAlreadyClaimed ==
    /\ [][(raffle.prize_claimed /\ last'.op = "claim_prize" /\ last'.auth)
            => (last'.res = PrizeAlreadyClaimed /\ balances' = balances)]_vars
    /\ [](paidOut <= raffle.prize_amount)

\* C1 (amended): once prize_claimed is set, every later claim_prize call fails
\* and moves no funds -- with PrizeAlreadyClaimed when the claimant is the
\* winner, with NotWinner when it is anyone else (the winner test comes
\* first), with the authentication trap when the claimant did not authorise
\* the call -- and the total paid out of custody never exceeds prize_amount.
C1_PaysOnce ==
    /\ [][(raffle.prize_claimed /\ last'.op = "claim_prize")
            => /\ last'.res = (IF ~last'.auth THEN AuthFailed
                               ELSE IF last'.who = raffle.winner THEN PrizeAlreadyClaimed
                               ELSE NotWinner)
               /\ balances' = balances
               /\ paidOut' = paidOut
               /\ raffle' = raffle]_vars
    /\ [](paidOut <= raffle.prize_amount)

\* A second claim by the winner has been refused after the prize was paid.
C1_Witness ==
    /\ raffle.prize_claimed
    /\ last.op = "claim_prize"
    /\ last.who = raffle.winner
    /\ last.res = PrizeAlreadyClaimed
    /\ paidOut = raffle.prize_amount
    /\ balances[ContractAddr] >= raffle.prize_amount

\* C2: tickets_sold never exceeds max_tickets.
C2_SoldWithinCap == raffle.tickets_sold <= raffle.max_tickets

\* The raffle is sold out with more than one ticket and a further buyer, who
\* holds no ticket, has just been turned away.
C2_Witness ==
    /\ initialized
    /\ raffle.tickets_sold = raffle.max_tickets
    /\ raffle.max_tickets > 1
    /\ last.op = "buy_ticket"
    /\ last.res = TicketsSoldOut
    /\ ticketCount[last.who] = 0

\* C3 (as stated): an authorised purchase on an active, not-ended raffle that
\* would take tickets_sold above max_tickets fails with InsufficientTickets
\* and changes nothing.
C3_FailsInsufficientTickets ==
    [][(/\ initialized /\ raffle.is_active /\ ~Ended
        /\ raffle.tickets_sold + 1 > raffle.max_tickets
        /\ last'.op = "buy_ticket" /\ last'.auth)
          => (last'.res = InsufficientTickets /\ UNCHANGED <<persisted, paidOut>>)]_vars

\* C3 (amended): such a purchase fails with TicketsSoldOut and leaves the
\* raffle record, the ledger, the counts, the id counter, the stored tickets
\* and all balances unchanged.
C3_FailsTicketsSoldOut ==
    [][(/\ initialized /\ raffle.is_active /\ ~Ended
        /\ raffle.tickets_sold + 1 > raffle.max_tickets
        /\ last'.op = "buy_ticket" /\ last'.auth)
          => (last'.res = TicketsSoldOut /\ UNCHANGED <<persisted, paidOut>>)]_vars

\* A buyer who already holds a ticket of a single-ticket raffle has been
\* turned away from the sold-out, still active raffle.
C3_Witness ==
    /\ initialized /\ raffle.is_active /\ ~Ended
    /\ raffle.tickets_sold = raffle.max_tickets
    /\ last.op = "buy_ticket" /\ last.auth
    /\ last.res = TicketsSoldOut
    /\ ~raffle.allow_multiple
    /\ ticketCount[last.who] > 0

\* C4: the ledger is as long as tickets_sold in every state, and every step
\* leaves the earlier ledger as a prefix of the later one.
C4_LedgerAppendOnly ==
    /\ [](Len(tickets) = raffle.tickets_sold)
    /\ [][IsPrefix(tickets, tickets')]_vars

\* Two different buyers are in the ledger.
C4_Witness ==
    /\ Len(tickets) > 1
    /\ tickets[1] # tickets[2]
    /\ Len(tickets) = raffle.tickets_sold

\* C5: a successful purchase of q tickets (q = 1 for buy_ticket) adds q to
\* tickets_sold, appends q entries of the buyer to the ledger, returns the
\* new tickets_sold and publishes exactly one TicketPurchased event with q
\* new, strictly increasing ticket ids, quantity q and total_paid =
\* ticket_price * q.
C5_PurchaseEffect ==
    [][(last'.op \in {"buy_ticket", "buy_tickets"} /\ last'.res = Ok)
         => LET q == IF last'.op = "buy_ticket" THEN 1 ELSE last'.arg
                ev == last'.events[1]
            IN /\ q > 0
               /\ raffle'.tickets_sold = raffle.tickets_sold + q
               /\ Len(tickets') = Len(tickets) + q
               /\ IsPrefix(tickets, tickets')
               /\ \A i \in (Len(tickets) + 1)..Len(tickets') : tickets'[i] = last'.who
               /\ last'.retN = raffle'.tickets_sold
               /\ Len(last'.events) = 1
               /\ ev.topic = "TicketPurchased"
               /\ ev.buyer = last'.who
               /\ ev.quantity = q
               /\ ev.total_paid = raffle.ticket_price * q
               /\ Len(ev.ticket_ids) = q
               /\ \A i \in 1..q :
                     /\ ev.ticket_ids[i] > 0
                     /\ ev.ticket_ids[i] \notin DOMAIN ticketStore
                     /\ ev.ticket_ids[i] \in DOMAIN ticketStore'
                     /\ ticketStore'[ev.ticket_ids[i]].buyer = last'.who
                     /\ (i > 1 => ev.ticket_ids[i - 1] < ev.ticket_ids[i])]_vars

\* A batch of more than one ticket has been bought.
C5_Witness ==
    /\ last.op = "buy_tickets" /\ last.res = Ok
    /\ last.arg > 1
    /\ raffle.tickets_sold = last.arg
    /\ Len(last.events[1].ticket_ids) = last.arg

C7_FinalizedOnce ==
    [][(initialized /\ ~raffle.is_active)
         => /\ ~raffle'.is_active
            /\ raffle'.winner = raffle.winner
            /\ raffle.winner # None
            /\ (last'.op = "finalize_raffle"
                  => /\ last'.res # Ok
                     /\ (last'.auth => last'.res = RaffleInactive))]_vars

\* A second finalize_raffle by the creator has been refused, at a ledger
\* whose seed picks another ledger entry than the recorded winner.
C7_Witness ==
    /\ initialized /\ ~raffle.is_active
    /\ last.op = "finalize_raffle" /\ last.auth
    /\ last.res = RaffleInactive
    /\ tickets[winner_index + 1] # raffle.winner

\* C8: an active raffle has no winner, and a claimed prize has a winner and
\* was deposited.
C8_FlagsConsistent ==
    initialized =>
        /\ (raffle.is_active => raffle.winner = None)
        /\ (raffle.prize_claimed => (raffle.winner # None /\ raffle.prize_deposited))

\* The prize has been claimed.
C8_Witness ==
    /\ initialized
    /\ raffle.prize_claimed
    /\ last.op = "claim_prize" /\ last.res = Ok

\* C9: a call its required principal did not authorise changes no persisted
\* state and no balance.
C9_AuthGatesEveryWrite ==
    [][~last'.auth => UNCHANGED <<persisted, paidOut>>]_vars

\* C10: a call of init, deposit_prize, buy_ticket, finalize_raffle or
\* claim_prize that fails, by a typed error or a trap, publishes nothing and
\* leaves storage and every balance as they were.
C10_AllOrNothing ==
    [][(last'.op \in {"init", "deposit_prize", "buy_ticket", "finalize_raffle", "claim_prize"}
          /\ last'.res # Ok)
         => (UNCHANGED <<persisted, paidOut>> /\ last'.events = <<>>)]_vars

\* A purchase has failed in the token transfer, after every check passed.
C10_Witness ==
    /\ last.op = "buy_ticket"
    /\ last.res = TransferFailed
    /\ balances[last.who] < raffle.ticket_price


\* The scenario has run to its end: the prize was deposited, exactly one
\* ticket was sold, to a buyer who is not the creator, the raffle was
\* finalized and the prize claimed.
ScenarioDone ==
    /\ initialized
    /\ raffle.prize_deposited
    /\ Len(tickets) = 1
    /\ tickets[1] # raffle.creator
    /\ ~raffle.is_active
    /\ raffle.prize_claimed

\* C11 (as stated): at the end of the scenario the buyer is the winner and is
\* 90 up (100 won, 10 spent), and the creator is 90 down (100 prize out, 10
\* ticket revenue in).
C11_CreatorNetsMinus90 ==
    ScenarioDone =>
        /\ raffle.winner = tickets[1]
        /\ balances[tickets[1]] = ScenarioBalance + 90
        /\ balances[raffle.creator] = ScenarioBalance - 90

\* C11 (amended): at the end of the scenario the buyer is the winner and is
\* 90 up, the creator is 100 down (the prize), and the 10 of ticket revenue
\* stays in the contract's custody.
C11_CreatorNetsMinus100 ==
    ScenarioDone =>
        /\ raffle.winner = tickets[1]
        /\ balances[tickets[1]] = ScenarioBalance + 90
        /\ balances[raffle.creator] = ScenarioBalance - 100
        /\ balances[ContractAddr] = 10

\* The scenario has run to its end and the winner holds 1090.
C11_Witness ==
    /\ ScenarioDone
    /\ last.op = "claim_prize" /\ last.res = Ok
    /\ balances[raffle.winner] = ScenarioBalance + 90


\* C12: a successful finalize_raffle makes the winner the ledger entry at
\* position (timestamp + sequence) mod tickets_sold (0-based), returns that
\* address, and emits RaffleFinalized with winning_ticket_id below
\* total_tickets_sold and total_tickets_sold equal to tickets_sold; the
\* winner holds at least one ticket.
C12_WinnerFromLedger ==
    [][(last'.op = "finalize_raffle" /\ last'.res = Ok) =>
          LET idx == (now + seq) % raffle.tickets_sold
              ev == last'.events[1]
          IN
          /\ raffle.tickets_sold = Len(tickets)
          /\ raffle'.winner = tickets[idx + 1]
          /\ last'.retA = raffle'.winner
          /\ Len(last'.events) = 1
          /\ ev.topic = "RaffleFinalized"
          /\ ev.winner = raffle'.winner
          /\ ev.winning_ticket_id = idx
          /\ ev.winning_ticket_id < ev.total_tickets_sold
          /\ ev.total_tickets_sold = raffle'.tickets_sold
          /\ raffle'.tickets_sold = raffle.tickets_sold
          /\ raffle'.winner \in Users
          /\ ticketCount'[raffle'.winner] > 0]_vars

\* finalize_raffle has just drawn the second of two ledger entries, held by
\* two different buyers.
C12_Witness ==
    /\ last.op = "finalize_raffle" /\ last.res = Ok
    /\ Len(tickets) = 2
    /\ tickets[1] # tickets[2]
    /\ raffle.winner = tickets[2]
    /\ last.events[1].winning_ticket_id = 1


\* The results finalize_raffle can return.
FinalizeResults ==
    {Ok, NotInitialized, AuthFailed, RaffleInactive, RaffleStillRunning, NoTicketsSold}

\* A call record with the randomness-source label of its events blanked.
Unlabelled(call) ==
    [call EXCEPT !.events =
        [i \in DOMAIN call.events |->
            IF "randomness_source" \in DOMAIN call.events[i]
            THEN [call.events[i] EXCEPT !.randomness_source = "-"]
            ELSE call.events[i]]]

\* Every value the raffle record can take after one finalize_raffle call.
FinalizeRaffles ==
    {raffle} \cup {[raffle EXCEPT !.is_active = FALSE, !.winner = w] : w \in Users}

\* Every unlabelled call record one finalize_raffle call can leave.
FinalizeCalls(auth) ==
    {Call("finalize_raffle", raffle.creator, auth, res, 0, None, <<>>) :
        res \in FinalizeResults \ {Ok}}
    \cup
    {Call("finalize_raffle", raffle.creator, auth, Ok, 0, w,
          <<[topic |-> "RaffleFinalized", winner |-> w, winning_ticket_id |-> i,
             total_tickets_sold |-> raffle.tickets_sold, randomness_source |-> "-",
             finalized_at |-> now]>>) :
        w \in Users, i \in 0..Len(tickets)}

\* finalize_raffle(source) run from the current state leaves the raffle
\* record r and the unlabelled call record l, and nothing else changed.
FinalizeOutcome(source, auth, r, l) ==
    /\ finalize_raffle(source, auth)
    /\ raffle' = r
    /\ Unlabelled(last') = l
    /\ last'.res = Ok => last'.events[1].randomness_source = source
    /\ UNCHANGED <<initialized, factory, tickets, ticketCount, nextTicketId, ticketStore,
                   balances, ledger, paidOut>>

\* C13: the randomness-source label does not influence the outcome. From any
\* reachable state, at the same ledger timestamp and sequence number,
\* finalize_raffle called with one label and finalize_raffle called with
\* another leave the same winner and the same post-state; the two runs differ
\* only in the label echoed in the RaffleFinalized event.
C13_LabelOpaque ==
    \A auth \in BOOLEAN :
        LET reach(r, l) == {source \in Sources : ENABLED FinalizeOutcome(source, auth, r, l)}
            outcomes == {o \in FinalizeRaffles \X FinalizeCalls(auth) : reach(o[1], o[2]) # {}}
        IN
        /\ outcomes # {}
        /\ \A o \in outcomes : reach(o[1], o[2]) = Sources

\* Two tickets held by different buyers are in the ledger and finalize_raffle
\* would succeed now, so a label-dependent draw could pick either buyer; the
\* call made with "prng" and the call made with "oracle" both pick the entry
\* at (timestamp + sequence) mod 2.
C13_Witness ==
    /\ initialized
    /\ Len(tickets) = 2
    /\ tickets[1] # tickets[2]
    /\ finalize_raffle_check(TRUE) = Ok
    /\ \A source \in Sources :
           ENABLED (finalize_raffle(source, TRUE)
                    /\ raffle'.winner = tickets[((now + seq) % 2) + 1]
                    /\ last'.events[1].randomness_source = source)


\* C14: finalize_raffle succeeds only when the raffle is active, at least one
\* ticket is sold and end_time is 0 or already reached. An authorised call on
\* an initialised raffle otherwise fails with the first that applies of
\* RaffleInactive, RaffleStillRunning, NoTicketsSold, in that order, and a
\* failed call records no winner and changes nothing persisted.
C14_FinalizePreconditions ==
    [][last'.op = "finalize_raffle" =>
          /\ last'.res = Ok =>
                 /\ raffle.is_active
                 /\ raffle.tickets_sold > 0
                 /\ raffle.end_time = 0 \/ now >= raffle.end_time
          /\ (initialized /\ last'.auth) =>
                 last'.res = IF ~raffle.is_active THEN RaffleInactive
                             ELSE IF raffle.end_time # 0 /\ now < raffle.end_time
                                  THEN RaffleStillRunning
                             ELSE IF raffle.tickets_sold = 0 THEN NoTicketsSold
                             ELSE Ok
          /\ last'.res # Ok =>
                 /\ raffle'.winner = raffle.winner
                 /\ UNCHANGED persisted
                 /\ last'.events = <<>>]_vars

\* finalize_raffle was just refused with RaffleStillRunning on a raffle that
\* has also sold no ticket: the end-time test came first.
C14_Witness ==
    /\ last.op = "finalize_raffle"
    /\ last.res = RaffleStillRunning
    /\ raffle.is_active
    /\ raffle.tickets_sold = 0
    /\ raffle.winner = None


\* C15: the prize is deposited at most once. A successful deposit_prize
\* happens only on an active raffle whose prize is not yet deposited, moves
\* exactly prize_amount from the creator to the contract and sets
\* prize_deposited; an authorised deposit_prize on an active raffle whose
\* prize is deposited fails with PrizeAlreadyDeposited, on a finalized raffle
\* with RaffleInactive; a failed call changes nothing; and no step of any
\* kind turns prize_deposited back to false.
C15_DepositedOnce ==
    [][/\ last'.op = "deposit_prize" =>
             /\ last'.res = Ok =>
                    /\ raffle.is_active /\ ~raffle.prize_deposited
                    /\ raffle' = [raffle EXCEPT !.prize_deposited = TRUE]
                    /\ balances'[raffle.creator] = balances[raffle.creator] - raffle.prize_amount
                    /\ balances'[ContractAddr] = balances[ContractAddr] + raffle.prize_amount
                    /\ \A a \in Accounts \ {raffle.creator, ContractAddr} :
                           balances'[a] = balances[a]
             /\ (initialized /\ last'.auth /\ raffle.is_active /\ raffle.prize_deposited) =>
                    last'.res = PrizeAlreadyDeposited
             /\ (initialized /\ last'.auth /\ ~raffle.is_active) =>
                    last'.res = RaffleInactive
             /\ last'.res # Ok => UNCHANGED persisted
       /\ (initialized /\ raffle.prize_deposited) => (initialized' /\ raffle'.prize_deposited)
      ]_vars

\* A second deposit_prize on a still-active raffle was just refused, with the
\* one prize still in custody.
C15_Witness ==
    /\ last.op = "deposit_prize"
    /\ last.res = PrizeAlreadyDeposited
    /\ raffle.is_active /\ raffle.prize_deposited
    /\ balances[ContractAddr] >= raffle.prize_amount


\* The preconditions of init on its parameters.
InitParametersValid(a) ==
    /\ a.end_time = 0 \/ a.end_time >= now
    /\ a.max_tickets > 0
    /\ a.ticket_price > 0
    /\ a.prize_amount > 0

\* init returned Ok and stored a fresh raffle with the given parameters.
InitStored(fac, creator, a) ==
    /\ last'.op = "init" /\ last'.res = Ok
    /\ initialized'
    /\ factory' = fac
    /\ raffle' = [creator |-> creator, end_time |-> a.end_time,
                  max_tickets |-> a.max_tickets, allow_multiple |-> a.allow_multiple,
                  ticket_price |-> a.ticket_price, prize_amount |-> a.prize_amount,
                  tickets_sold |-> 0, is_active |-> TRUE, prize_deposited |-> FALSE,
                  prize_claimed |-> FALSE, winner |-> None]

\* init returned InvalidParameters and stored nothing.
InitRefused ==
    /\ last'.op = "init" /\ last'.res = InvalidParameters
    /\ last'.events = <<>>
    /\ UNCHANGED persisted

\* C16: on an uninitialized contract, init succeeds exactly when end_time is 0
\* or not before the current time, and max_tickets, ticket_price and
\* prize_amount are positive. On success the stored raffle has tickets_sold 0,
\* is active, has no prize deposited or claimed and no winner; otherwise init
\* fails with InvalidParameters and stores nothing.
C16_InitValidates ==
    ~initialized =>
        \A fac \in Factories, creator \in Creators, a \in InitArgs, auth \in BOOLEAN :
            LET call == init(fac, creator, a.end_time, a.max_tickets, a.allow_multiple,
                             a.ticket_price, a.prize_amount, auth)
            IN
            IF InitParametersValid(a)
            THEN /\ ENABLED (call /\ InitStored(fac, creator, a))
                 /\ ~ENABLED (call /\ ~InitStored(fac, creator, a))
            ELSE /\ ENABLED (call /\ InitRefused)
                 /\ ~ENABLED (call /\ ~InitRefused)

\* init has just succeeded with an end_time equal to the current, non-zero
\* time, the latest moment at which that end_time is still accepted.
C16_Witness ==
    /\ last.op = "init" /\ last.res = Ok
    /\ initialized
    /\ now > 0
    /\ raffle.end_time = now
    /\ raffle.is_active /\ raffle.tickets_sold = 0 /\ raffle.winner = None


\* C17: a raffle instance is initialised exactly once. Once a raffle is
\* stored, every init call, whatever the raffle's state, fails with
\* AlreadyInitialized and changes nothing, and the instance stays
\* initialised; while none is stored, every authorised deposit_prize,
\* buy_ticket, finalize_raffle, claim_prize and every get_raffle fails with
\* NotInitialized, and no call but init succeeds.
C17_InitializedOnce ==
    [][/\ (last'.op = "init" /\ initialized) =>
             /\ last'.res = AlreadyInitialized
             /\ raffle' = raffle
             /\ UNCHANGED persisted
       /\ (~initialized /\ last'.auth
              /\ last'.op \in {"deposit_prize", "buy_ticket", "finalize_raffle",
                               "claim_prize", "get_raffle"}) =>
             /\ last'.res = NotInitialized
             /\ UNCHANGED persisted
       /\ (~initialized /\ last'.res = Ok) => last'.op \in {"init", "close_ledger"}
       /\ initialized => initialized'
       /\ (last'.op = "get_raffle" /\ initialized) =>
             (last'.res = Ok /\ last'.ret = raffle /\ UNCHANGED persisted)]_vars

\* init has just been refused on a raffle that is finalized and whose prize
\* is claimed.
C17_Witness ==
    /\ last.op = "init"
    /\ last.res = AlreadyInitialized
    /\ initialized
    /\ ~raffle.is_active
    /\ raffle.prize_claimed


Min(a, b) == IF a < b THEN a ELSE b

\* C18: on a registry of `total` ids, get_all_raffle_ids(offset, limit,
\* newest_first) returns min(min(limit, 100), total - offset) ids, none when
\* offset >= total; the metadata gives total, offset, min(limit, 100) and
\* has_more = (offset + returned count < total); the k-th id of the page is
\* the registry entry at index total-1-offset-k when newest_first and at
\* index offset+k otherwise (k from 0); and the registry is unchanged.
C18_Page ==
    [][last'.op = "get_all_raffle_ids" =>
          LET offset == last'.args.offset
              limit == last'.args.limit
              total == Len(raffleIds)
              data == last'.ret.data
              meta == last'.ret.meta
          IN
          /\ Len(data) = IF offset >= total THEN 0
                         ELSE Min(Min(limit, 100), total - offset)
          /\ meta = [total |-> total, offset |-> offset, limit |-> Min(limit, 100),
                     has_more |-> (offset + Len(data) < total)]
          /\ \A k \in 0..(Len(data) - 1) :
                 data[k + 1] = IF last'.args.newest_first
                               THEN raffleIds[(total - 1 - offset - k) + 1]
                               ELSE raffleIds[(offset + k) + 1]
          /\ UNCHANGED registry]_vars

\* A page asked with limit 200 from a registry of more than 100 ids, newest
\* first, has just been cut to 100 ids by the ceiling, with more to come.
C18_Witness ==
    /\ last.op = "get_all_raffle_ids"
    /\ last.args.limit > MAX_PAGE_LIMIT
    /\ last.args.newest_first
    /\ last.args.offset = 1
    /\ Len(raffleIds) > MAX_PAGE_LIMIT + 1
    /\ Len(last.ret.data) = MAX_PAGE_LIMIT
    /\ last.ret.meta.has_more
    /\ last.ret.data[1] = Len(raffleIds) - 2


\* C19: the factory's registry is append-only and insertion-ordered. A
\* successful create_raffle adds exactly one entry at the end and leaves the
\* earlier entries where they were; no other step changes the registry; and
\* get_raffles returns the entries in creation order, as many as there were
\* successful create_raffle calls.
C19_RegistryAppendOnly ==
    [][/\ IF last'.op = "create_raffle" /\ last'.res = Ok
          THEN /\ Len(raffleInstances') = Len(raffleInstances) + 1
               /\ SubSeq(raffleInstances', 1, Len(raffleInstances)) = raffleInstances
          ELSE raffleInstances' = raffleInstances
       /\ Len(raffleInstances') = created'
       /\ last'.op = "get_raffles" =>
             /\ last'.ret = raffleInstances
             /\ Len(last'.ret) = created]_vars

\* get_raffles has just returned a registry of three entries made by two
\* creators, the first creator's two entries around the second's.
C19_Witness ==
    /\ last.op = "get_raffles"
    /\ created = 3
    /\ Len(last.ret) = 3
    /\ last.ret[1] = last.ret[3]
    /\ last.ret[1] # last.ret[2]

\* C20: every successful create_raffle records the address of a raffle
\* instance of its own, so two raffles, even two of the same creator, never
\* share a registry entry: no two entries of the registry are the same
\* address.
C20_OneEntryPerRaffle ==
    \A i, j \in DOMAIN raffleInstances :
        i # j => raffleInstances[i] # raffleInstances[j]


\* What the contract holds for the raffle: the revenue of every ticket sold,
\* and the prize from its deposit until its claim.
Custody ==
    raffle.ticket_price * raffle.tickets_sold
        + (IF raffle.prize_deposited /\ ~raffle.prize_claimed THEN raffle.prize_amount ELSE 0)

\* C21 (as stated): the contract's balance is the custody amount in every
\* reachable state, and after a full lifecycle the creator is down by exactly
\* prize_amount and the winner is up by prize_amount minus what the winner
\* paid for tickets.
C21_CreatorDownByPrize ==
    /\ balances[ContractAddr] = Custody
    /\ (initialized /\ raffle.prize_claimed) =>
           /\ balances[raffle.creator] = InitialBalance - raffle.prize_amount
           /\ balances[raffle.winner] =
                  InitialBalance + raffle.prize_amount
                      - raffle.ticket_price * ticketCount[raffle.winner]

\* C21 (amended): the contract's balance is the custody amount in every
\* reachable state, the only payment out of custody is the prize, and after a
\* full lifecycle every account is down by what it paid for tickets, the
\* creator is down by prize_amount besides, and the winner is up by
\* prize_amount - the creator may hold tickets and may be the winner.
C21_CustodyConserved ==
    /\ balances[ContractAddr] = Custody
    /\ paidOut = IF raffle.prize_claimed THEN raffle.prize_amount ELSE 0
    /\ (initialized /\ raffle.prize_claimed) =>
           \A u \in Users :
               balances[u] = InitialBalance
                                 - raffle.ticket_price * ticketCount[u]
                                 - (IF u = raffle.creator THEN raffle.prize_amount ELSE 0)
                                 + (IF u = raffle.winner THEN raffle.prize_amount ELSE 0)

\* A full lifecycle has just ended in which the creator bought a ticket of
\* the creator's own raffle and another buyer won the prize.
C21_Witness ==
    /\ last.op = "claim_prize" /\ last.res = Ok
    /\ raffle.prize_claimed
    /\ ticketCount[raffle.creator] > 0
    /\ raffle.winner # raffle.creator
    /\ balances[ContractAddr] = raffle.ticket_price * raffle.tickets_sold


\* C22: a chosen winner can always collect. In every reachable state with a
\* winner recorded and the prize unclaimed, claim_prize authorised by the
\* winner succeeds, or the one operation that could make it succeed later,
\* deposit_prize authorised by the creator, still can: no state has a winner
\* while the prize is not deposited and can no longer be deposited.
C22_WinnerCanCollect ==
    (initialized /\ raffle.winner # None /\ ~raffle.prize_claimed) =>
        \/ ENABLED (claim_prize(raffle.winner, TRUE) /\ last'.res = Ok)
        \/ /\ ~raffle.prize_deposited
           /\ deposit_prize_check(TRUE) \in {Ok, TransferFailed}


\* Some buyer's authorised buy_ticket would succeed in this state.
BuyCanSucceed == \E buyer \in Users : buy_ticket_check(buyer, TRUE) = Ok

\* The creator's authorised finalize_raffle would succeed in this state.
FinalizeCanSucceed == finalize_raffle_check(TRUE) = Ok

\* Once the raffle is finalized it stays so, no buy_ticket succeeds, and
\* tickets_sold and the ledger no longer change.
SalesFrozen ==
    (initialized /\ ~raffle.is_active) =>
        /\ ~raffle'.is_active
        /\ ~(last'.op = "buy_ticket" /\ last'.res = Ok)
        /\ raffle'.tickets_sold = raffle.tickets_sold
        /\ tickets' = tickets

\* C23 (as stated): for a raffle with nonzero end_time there is no timestamp,
\* timestamp = end_time included, at which both a buy_ticket and a
\* finalize_raffle can succeed; and after finalize_raffle succeeded sales are
\* frozen.
C23_PhasesDisjoint ==
    [][/\ (initialized /\ raffle.end_time # 0) => ~(BuyCanSucceed /\ FinalizeCanSucceed)
       /\ SalesFrozen]_vars

\* C23 (amended): for a raffle with nonzero end_time, buy_ticket succeeds only
\* at timestamps <= end_time and finalize_raffle only at timestamps >=
\* end_time, so the two can both succeed at timestamp = end_time and at no
\* other; and after finalize_raffle succeeded sales are frozen.
C23_PhasesMeetAtEndTime ==
    [][/\ (initialized /\ raffle.end_time # 0 /\ now # raffle.end_time) =>
             ~(BuyCanSucceed /\ FinalizeCanSucceed)
       /\ (last'.op = "buy_ticket" /\ last'.res = Ok /\ raffle.end_time # 0) =>
             now <= raffle.end_time
       /\ (last'.op = "finalize_raffle" /\ last'.res = Ok /\ raffle.end_time # 0) =>
             now >= raffle.end_time
       /\ SalesFrozen]_vars

\* A ticket has just been sold at timestamp = end_time, another can still be
\* sold, and finalize_raffle can succeed at the same timestamp.
C23_Witness ==
    /\ last.op = "buy_ticket" /\ last.res = Ok
    /\ raffle.end_time # 0
    /\ now = raffle.end_time
    /\ BuyCanSucceed
    /\ FinalizeCanSucceed


\* C24: under SpecLive's fairness, a raffle whose prize is deposited and
\* which has sold at least one ticket eventually has prize_claimed = true,
\* and once the prize is claimed no operation changes the raffle record.
C24_LifecycleCompletes ==
    /\ (initialized /\ raffle.prize_deposited /\ raffle.tickets_sold > 0)
           ~> (initialized /\ raffle.prize_claimed)
    /\ [][(initialized /\ raffle.prize_claimed) => raffle' = raffle]_vars

\* The prize of a raffle with a deadline is claimed, and the creator's
\* attempt to deposit again has just been refused without touching the record.
C24_Witness ==
    /\ initialized
    /\ raffle.prize_claimed
    /\ raffle.end_time # 0
    /\ raffle.tickets_sold > 0
    /\ last.op = "deposit_prize" /\ last.res = RaffleInactive


\* The number of ledger entries of a buyer.
LedgerCount(buyer) == Cardinality({i \in DOMAIN tickets : tickets[i] = buyer})

RECURSIVE SumOfCounts(_)
SumOfCounts(S) ==
    IF S = {} THEN 0
    ELSE LET u == CHOOSE x \in S : TRUE IN ticketCount[u] + SumOfCounts(S \ {u})

\* C25: in every reachable state each buyer's stored ticket count is the
\* number of ledger entries of that buyer and the counts sum to tickets_sold;
\* when allow_multiple is false every count is 0 or 1 and no address is twice
\* in the ledger; and no step decreases a count.
C25_CountsMatchLedger ==
    /\ [](/\ \A u \in Users : ticketCount[u] = LedgerCount(u)
          /\ SumOfCounts(Users) = raffle.tickets_sold
          /\ ~raffle.allow_multiple =>
                 /\ \A u \in Users : ticketCount[u] \in {0, 1}
                 /\ \A i, j \in DOMAIN tickets : i # j => tickets[i] # tickets[j])
    /\ [][\A u \in Users : ticketCount'[u] >= ticketCount[u]]_vars

\* One buyer holds two tickets of a raffle that allows it, and another buyer
\* holds none.
C25_Witness ==
    /\ initialized
    /\ raffle.allow_multiple
    /\ \E u \in Users : ticketCount[u] = 2 /\ LedgerCount(u) = 2
    /\ \E u \in Users : ticketCount[u] = 0


\* C26: ticket ids run from 1 without gaps or repeats. In every reachable
\* state the next-ticket-id counter equals tickets_sold and the stored
\* tickets are exactly those with ids 1..tickets_sold, the k-th having id k,
\* ticket_number k and the buyer at ledger index k-1; a successful buy_ticket
\* issues the id tickets_sold + 1, a failed one consumes none; and no step
\* rewrites or removes a stored ticket.
C26_SequentialIds ==
    /\ [](/\ nextTicketId = raffle.tickets_sold
          /\ DOMAIN ticketStore = 1..raffle.tickets_sold
          /\ \A k \in DOMAIN ticketStore :
                 /\ ticketStore[k].id = k
                 /\ ticketStore[k].ticket_number = k
                 /\ ticketStore[k].buyer = tickets[k])
    /\ [][/\ \A k \in DOMAIN ticketStore :
                k \in DOMAIN ticketStore' /\ ticketStore'[k] = ticketStore[k]
          /\ (last'.op = "buy_ticket" /\ last'.res = Ok) =>
                /\ last'.events[1].ticket_ids = <<raffle.tickets_sold + 1>>
                /\ nextTicketId' = nextTicketId + 1
          /\ (last'.op = "buy_ticket" /\ last'.res # Ok) =>
                (nextTicketId' = nextTicketId /\ ticketStore' = ticketStore)]_vars

\* The second ticket has just been issued, with id 2, to a buyer other than
\* the holder of ticket 1.
C26_Witness ==
    /\ last.op = "buy_ticket" /\ last.res = Ok
    /\ last.events[1].ticket_ids = <<2>>
    /\ nextTicketId = 2
    /\ ticketStore[2].buyer = last.who
    /\ ticketStore[1].buyer # last.who


\* C27: counter arithmetic never wraps. For every max_tickets up to the
\* largest value of a counter, every successful buy_ticket leaves tickets_sold,
\* the next-ticket-id counter and the buyer's count one above their old
\* values and within the counters' range; no buy_ticket panics on an overflow;
\* a refused buy_ticket changes nothing; and every counter of every reachable
\* state is the true number of tickets it counts.
C27_CountersNeverWrap ==
    /\ [](/\ raffle.tickets_sold = Len(tickets)
          /\ nextTicketId = Len(tickets)
          /\ \A u \in Users : ticketCount[u] = LedgerCount(u)
          /\ Len(tickets) <= CounterMax)
    /\ [][last'.op = "buy_ticket" =>
             /\ last'.res # Panicked
             /\ last'.res = Ok =>
                    /\ raffle'.tickets_sold = raffle.tickets_sold + 1
                    /\ nextTicketId' = nextTicketId + 1
                    /\ ticketCount'[last'.who] = ticketCount[last'.who] + 1
                    /\ raffle'.tickets_sold <= CounterMax
                    /\ nextTicketId' <= CounterMax
                    /\ ticketCount'[last'.who] <= CounterMax
             /\ last'.res # Ok => UNCHANGED persisted]_vars

\* A raffle of the largest size is sold out: tickets_sold and the next ticket
\* id are the largest value a counter holds, one buyer's count is too, and a
\* further purchase, whose additions would wrap, has just been refused.
C27_Witness ==
    /\ raffle.max_tickets = CounterMax
    /\ raffle.tickets_sold = CounterMax
    /\ nextTicketId = CounterMax
    /\ \E u \in Users : ticketCount[u] = CounterMax
    /\ last.op = "buy_ticket"
    /\ last.res = TicketsSoldOut

====
